---- MODULE Spec2Model ----
(***************************************************************************)
(* Model of the speech-to-text core of GramSense:                          *)
(*   ml/asr-engine/core/tokenizer.py  (WhisperTokenizer)                   *)
(*   ml/asr-engine/core/whisper.py    (WhisperASR)                         *)
(*                                                                         *)
(* Conventions.  Python's None and the values that share a field with it   *)
(* are tagged records, so that they can be compared.  A text handled       *)
(* character by character is a sequence of one-character strings; a        *)
(* literal without whitespace or marker characters (the name of a special  *)
(* token) may stand as one element.  A finished text is a string.  The two *)
(* marker characters of the GPT-2 byte alphabet, U+0120 and U+010A, are    *)
(* written GSPACE and GNEWLINE.  A float is kept exact: a confidence in    *)
(* hundredths, a time as a fraction num/den.  The ONNX sessions are the    *)
(* environment: a session is a stub that says what run() answers.          *)
(***************************************************************************)
EXTENDS Integers, Sequences, FiniteSets, TLC

(***************************************************************************)
(* tokenizer.py: special token ids and the language table                  *)
(***************************************************************************)
EOT_TOKEN == 50257
SOT_TOKEN == 50258
TRANSLATE_TOKEN == 50358
TRANSCRIBE_TOKEN == 50359
NO_TIMESTAMPS_TOKEN == 50363
TIMESTAMP_BEGIN == 50364

\* The class attribute LANGUAGES, as the list of its (code, id) items.
LanguageItems ==
  <<
     <<"en", 50259>>, <<"zh", 50260>>, <<"de", 50261>>, <<"es", 50262>>, <<"ru", 50263>>,
     <<"ko", 50264>>, <<"fr", 50265>>, <<"ja", 50266>>, <<"pt", 50267>>, <<"tr", 50268>>,
     <<"pl", 50269>>, <<"ca", 50270>>, <<"nl", 50271>>, <<"ar", 50272>>, <<"sv", 50273>>,
     <<"it", 50274>>, <<"id", 50275>>, <<"hi", 50276>>, <<"fi", 50277>>, <<"vi", 50278>>,
     <<"he", 50279>>, <<"uk", 50280>>, <<"el", 50281>>, <<"ms", 50282>>, <<"cs", 50283>>,
     <<"ro", 50284>>, <<"da", 50285>>, <<"hu", 50286>>, <<"ta", 50287>>, <<"no", 50288>>,
     <<"th", 50289>>, <<"ur", 50290>>, <<"hr", 50291>>, <<"bg", 50292>>, <<"lt", 50293>>,
     <<"la", 50294>>, <<"mi", 50295>>, <<"ml", 50296>>, <<"cy", 50297>>, <<"sk", 50298>>,
     <<"te", 50299>>, <<"fa", 50300>>, <<"lv", 50301>>, <<"bn", 50302>>, <<"sr", 50303>>,
     <<"az", 50304>>, <<"sl", 50305>>, <<"kn", 50306>>, <<"et", 50307>>, <<"mk", 50308>>,
     <<"br", 50309>>, <<"eu", 50310>>, <<"is", 50311>>, <<"hy", 50312>>, <<"ne", 50313>>,
     <<"mn", 50314>>, <<"bs", 50315>>, <<"kk", 50316>>, <<"sq", 50317>>, <<"sw", 50318>>,
     <<"gl", 50319>>, <<"mr", 50320>>, <<"pa", 50321>>, <<"si", 50322>>, <<"km", 50323>>,
     <<"sn", 50324>>, <<"yo", 50325>>, <<"so", 50326>>, <<"af", 50327>>, <<"oc", 50328>>,
     <<"ka", 50329>>, <<"be", 50330>>, <<"tg", 50331>>, <<"sd", 50332>>, <<"gu", 50333>>,
     <<"am", 50334>>, <<"yi", 50335>>, <<"lo", 50336>>, <<"uz", 50337>>, <<"fo", 50338>>,
     <<"ht", 50339>>, <<"ps", 50340>>, <<"tk", 50341>>, <<"nn", 50342>>, <<"mt", 50343>>,
     <<"sa", 50344>>, <<"lb", 50345>>, <<"my", 50346>>, <<"bo", 50347>>, <<"tl", 50348>>,
     <<"mg", 50349>>, <<"as", 50350>>, <<"tt", 50351>>, <<"haw", 50352>>, <<"ln", 50353>>,
     <<"ha", 50354>>, <<"ba", 50355>>, <<"jw", 50356>>, <<"su", 50357>>
  >>

LanguageCodes == {LanguageItems[i][1] : i \in 1..Len(LanguageItems)}

LANGUAGES ==
  [c \in LanguageCodes |->
     LET i == CHOOSE j \in 1..Len(LanguageItems) : LanguageItems[j][1] = c
     IN  LanguageItems[i][2]]

\* dict.get(key, default) on a TLA+ function.
DictGet(d, key, default) == IF key \in DOMAIN d THEN d[key] ELSE default

\* Variant: an unknown code gets the start-of-transcript id.
get_language_token_DefaultsToSot(language) ==
  DictGet(LANGUAGES, language, SOT_TOKEN)

get_language_token(language) == DictGet(LANGUAGES, language, LANGUAGES["en"])

\* Variant: the task test inverted.
build_decoder_input_TaskInverted(language, task, no_timestamps) ==
  LET t1 == <<SOT_TOKEN>>
      t2 == Append(t1, get_language_token(language))
      t3 == IF task = "transcribe"
              THEN Append(t2, TRANSCRIBE_TOKEN)
              ELSE Append(t2, TRANSLATE_TOKEN)
  IN  IF no_timestamps THEN Append(t3, NO_TIMESTAMPS_TOKEN) ELSE t3

build_decoder_input(language, task, no_timestamps) ==
  LET t1 == <<SOT_TOKEN>>
      t2 == Append(t1, get_language_token(language))
      t3 == IF task = "translate"
              THEN Append(t2, TRANSLATE_TOKEN)
              ELSE Append(t2, TRANSCRIBE_TOKEN)
  IN  IF no_timestamps THEN Append(t3, NO_TIMESTAMPS_TOKEN) ELSE t3

(***************************************************************************)
(* tokenizer.py: the vocabulary and decode                                 *)
(***************************************************************************)
GSPACE == "U+0120"
GNEWLINE == "U+010A"

\* The items of the vocab.json of the model directory, in file order: the
\* token string and its id.  Besides ordinary tokens it lists the special
\* tokens the decoder seed is made of, as an added-tokens vocabulary does.
VocabItems ==
  << << <<"h", "i">>, 10 >>,
     << <<GSPACE, "y", "o">>, 11 >>,
     << <<GNEWLINE>>, 12 >>,
     << <<"<|endoftext|>">>, 50257 >>,
     << <<"<|startoftranscript|>">>, 50258 >>,
     << <<"<|en|>">>, 50259 >>,
     << <<"<|hi|>">>, 50276 >>,
     << <<"<|translate|>">>, 50358 >>,
     << <<"<|transcribe|>">>, 50359 >>,
     << <<"<|notimestamps|>">>, 50363 >>,
     << <<"<|0.00|>">>, 50364 >> >>

\* self.vocab = json.load(f): the last item of a key wins.
VocabOf(items) ==
  [k \in {items[i][1] : i \in 1..Len(items)} |->
     LET last == CHOOSE j \in 1..Len(items) :
                   /\ items[j][1] = k
                   /\ \A m \in (j+1)..Len(items) : items[m][1] # k
     IN  items[last][2]]

\* self.inv_vocab = {v: k for k, v in self.vocab.items()}: the last key of
\* an id wins.
InvVocabOf(items) ==
  [v \in {items[i][2] : i \in 1..Len(items)} |->
     LET last == CHOOSE j \in 1..Len(items) :
                   /\ items[j][2] = v
                   /\ \A m \in (j+1)..Len(items) : items[m][2] # v
     IN  items[last][1]]

\* The lines of the merges.txt of the model directory, each as its fields
\* (line.split()): the header, two merges, and a blank line between them.
MergesLines ==
  << <<"#version:", "0.2">>, <<"h", "i">>, <<>>, <<"y", "o">> >>

\* A model directory: what is found at vocab.json ("valid", "absent", or
\* "corrupt": no JSON) and at merges.txt ("valid" or "absent").
ModelDir(vocab_file, merges_file) ==
  [vocab_file |-> vocab_file, merges_file |-> merges_file]
DirFull == ModelDir("valid", "valid")
DirNoVocab == ModelDir("absent", "valid")
DirNoMerges == ModelDir("valid", "absent")
DirEmpty == ModelDir("absent", "absent")
DirCorrupt == ModelDir("corrupt", "valid")

\* self.merges: the lines after the header that are not blank.
MergesOf(lines) ==
  IF lines = <<>> THEN <<>>
  ELSE SelectSeq(Tail(lines), LAMBDA line : line # <<>>)

\* Variant: without a vocab.json nothing else is loaded.
WhisperTokenizer_StopsAtMissingVocab(model_dir) ==
  LET found == model_dir.vocab_file = "valid"
      items == IF found THEN VocabItems ELSE <<>>
      lines == IF found /\ model_dir.merges_file = "valid"
                 THEN MergesLines ELSE <<>>
  IN  [kind |-> "WhisperTokenizer",
       vocab |-> VocabOf(items),
       inv_vocab |-> InvVocabOf(items),
       merges |-> MergesOf(lines)]

\* WhisperTokenizer(model_dir): the tables are set empty, and each file that
\* exists is loaded into its own.  (A vocab.json that is no JSON makes
\* json.load, and so the constructor, raise: see NewTokenizer and load.)
WhisperTokenizer(model_dir) ==
  LET items == IF model_dir.vocab_file = "valid" THEN VocabItems ELSE <<>>
      lines == IF model_dir.merges_file = "valid" THEN MergesLines ELSE <<>>
  IN  [kind |-> "WhisperTokenizer",
       vocab |-> VocabOf(items),
       inv_vocab |-> InvVocabOf(items),
       merges |-> MergesOf(lines)]

\* Variant: only the ids above start-of-transcript are skipped.
DecodePass_AboveSotOnly(inv_vocab, token_id, skip_special_tokens, st) ==
  IF skip_special_tokens /\ token_id > SOT_TOKEN THEN st
  ELSE IF skip_special_tokens /\ token_id = EOT_TOKEN
    THEN [st EXCEPT !.brk = TRUE]
  ELSE LET token_str == DictGet(inv_vocab, token_id, <<>>)
       IN  IF token_str # <<>> THEN [st EXCEPT !.acc = @ \o token_str] ELSE st

\* Variant: end-of-text is passed over, the loop goes on.
DecodePass_ContinuesAtEot(inv_vocab, token_id, skip_special_tokens, st) ==
  IF skip_special_tokens /\ token_id >= SOT_TOKEN THEN st
  ELSE IF skip_special_tokens /\ token_id = EOT_TOKEN THEN st
  ELSE LET token_str == DictGet(inv_vocab, token_id, <<>>)
       IN  IF token_str # <<>> THEN [st EXCEPT !.acc = @ \o token_str] ELSE st

\* Variant: end-of-text leaves the loop whether or not special tokens are
\* skipped.
DecodePass_StopsAtEotAlways(inv_vocab, token_id, skip_special_tokens, st) ==
  IF skip_special_tokens /\ token_id >= SOT_TOKEN THEN st
  ELSE IF token_id = EOT_TOKEN THEN [st EXCEPT !.brk = TRUE]
  ELSE LET token_str == DictGet(inv_vocab, token_id, <<>>)
       IN  IF token_str # <<>> THEN [st EXCEPT !.acc = @ \o token_str] ELSE st

\* One pass of the loop of decode, on token_id: st.acc is the token strings
\* kept so far, concatenated (''.join), st.brk whether the loop was left.
DecodePass(inv_vocab, token_id, skip_special_tokens, st) ==
  IF skip_special_tokens /\ token_id >= SOT_TOKEN THEN st
  ELSE IF skip_special_tokens /\ token_id = EOT_TOKEN
    THEN [st EXCEPT !.brk = TRUE]
  ELSE LET token_str == DictGet(inv_vocab, token_id, <<>>)
       IN  IF token_str # <<>> THEN [st EXCEPT !.acc = @ \o token_str] ELSE st

\* The passes of the loop on token_ids[lo..hi], in order, from the state st
\* (the first half, then the second: the evaluation stays shallow).
RECURSIVE DecodeLoop(_, _, _, _, _, _)
DecodeLoop(inv_vocab, token_ids, skip_special_tokens, lo, hi, st) ==
  IF st.brk \/ lo > hi THEN st
  ELSE IF lo = hi
    THEN DecodePass(inv_vocab, token_ids[lo], skip_special_tokens, st)
  ELSE LET mid == (lo + hi) \div 2
           first == DecodeLoop(inv_vocab, token_ids, skip_special_tokens, lo, mid, st)
       IN  DecodeLoop(inv_vocab, token_ids, skip_special_tokens, mid + 1, hi, first)

\* text.replace(GSPACE, ' ').replace(GNEWLINE, '\n')
ReplaceMarkers(chars) ==
  [i \in 1..Len(chars) |->
     IF chars[i] = GSPACE THEN " "
     ELSE IF chars[i] = GNEWLINE THEN "\n"
     ELSE chars[i]]

Whitespace == {" ", "\n", "\t", "\r"}

\* str.strip()
Strip(chars) ==
  LET kept == {i \in 1..Len(chars) : chars[i] \notin Whitespace}
  IN  IF kept = {} THEN <<>>
      ELSE LET first == CHOOSE i \in kept : \A j \in kept : i <= j
               last == CHOOSE i \in kept : \A j \in kept : j <= i
           IN  SubSeq(chars, first, last)

\* The characters chars[lo..hi] as one string.
RECURSIVE JoinRange(_, _, _)
JoinRange(chars, lo, hi) ==
  IF lo > hi THEN ""
  ELSE IF lo = hi THEN chars[lo]
  ELSE LET mid == (lo + hi) \div 2
       IN  JoinRange(chars, lo, mid) \o JoinRange(chars, mid + 1, hi)

Join(chars) == JoinRange(chars, 1, Len(chars))

decode(tokenizer, token_ids, skip_special_tokens) ==
  LET st == DecodeLoop(tokenizer.inv_vocab, token_ids, skip_special_tokens,
                       1, Len(token_ids), [acc |-> <<>>, brk |-> FALSE])
  IN  Join(Strip(ReplaceMarkers(st.acc)))

\* encode(text): one pass per character, vocab.get(char, vocab.get(
\* '<|endoftext|>', 0)); a character is the token string made of it alone.
encode(tokenizer, text) ==
  [i \in 1..Len(text) |->
     DictGet(tokenizer.vocab, <<text[i]>>,
             DictGet(tokenizer.vocab, <<"<|endoftext|>">>, 0))]

(***************************************************************************)
(* whisper.py: values                                                      *)
(***************************************************************************)
None == [kind |-> "None"]
PyInt(n) == [kind |-> "int", v |-> n]
PyStr(s) == [kind |-> "str", s |-> s]

sample_rate == 16000
max_tokens == 50
n_fft == 400
hop_length == 160
n_mels == 80
DEFAULT_FRAMES == 3000
HIGH_CONFIDENCE == 85
LOW_CONFIDENCE == 60

\* self.languages
languages ==
  [c \in {"en", "hi", "ta", "te", "es", "fr", "de", "zh"} |->
     CASE c = "en" -> "English" [] c = "hi" -> "Hindi"
       [] c = "ta" -> "Tamil"   [] c = "te" -> "Telugu"
       [] c = "es" -> "Spanish" [] c = "fr" -> "French"
       [] c = "de" -> "German"  [] c = "zh" -> "Chinese"]

(***************************************************************************)
(* The environment: model files and the sessions made of them              *)
(***************************************************************************)
\* An encoder model: the declared shape of its first input (shape_raises:
\* reading it raises), and the inputs (by the id of the audio's content) on
\* which run() raises.
E3000 ==
  [kind |-> "InferenceSession", shape_raises |-> FALSE,
   in_shape |-> <<PyInt(1), PyInt(80), PyInt(3000)>>,
   fail_on |-> {}]
E1500 ==
  [kind |-> "InferenceSession", shape_raises |-> FALSE,
   in_shape |-> <<PyInt(1), PyInt(80), PyInt(1500)>>,
   fail_on |-> {2}]
ESym ==
  [kind |-> "InferenceSession", shape_raises |-> FALSE,
   in_shape |-> <<PyStr("batch"), PyInt(80), PyStr("frames")>>,
   fail_on |-> {}]
\* As many frames as the mel spectrogram of 30 seconds has.
E2998 ==
  [kind |-> "InferenceSession", shape_raises |-> FALSE,
   in_shape |-> <<PyInt(1), PyInt(80), PyInt(2998)>>,
   fail_on |-> {}]
\* A third dimension that is not declared.
ENoneDim ==
  [kind |-> "InferenceSession", shape_raises |-> FALSE,
   in_shape |-> <<PyInt(1), PyInt(80), None>>,
   fail_on |-> {}]
\* A shape of two dimensions.
E2D ==
  [kind |-> "InferenceSession", shape_raises |-> FALSE,
   in_shape |-> <<PyInt(80), PyInt(1500)>>,
   fail_on |-> {}]
\* A first input whose shape cannot be read.
EShapeRaises ==
  [kind |-> "InferenceSession", shape_raises |-> TRUE,
   in_shape |-> <<>>,
   fail_on |-> {}]

\* A scripted decoder model answers as a function of its inputs: per hidden
\* state, the length of the token input at which the greedy choice is
\* end-of-text (eot_len) and the one at which run() raises (fail_len), 0 for
\* never; before that the choice alternates between the ids 10 and 11.
DScriptA ==
  [kind |-> "InferenceSession", free |-> FALSE,
   plan |-> (1 :> [eot_len |-> 6, fail_len |-> 0]) @@
            (2 :> [eot_len |-> 4, fail_len |-> 0])]
DScriptB ==
  [kind |-> "InferenceSession", free |-> FALSE,
   plan |-> (1 :> [eot_len |-> 0, fail_len |-> 0]) @@
            (2 :> [eot_len |-> 0, fail_len |-> 6])]
\* A free decoder model may answer anything at each call (see DecoderRun).
DFree == [kind |-> "InferenceSession", free |-> TRUE]

\* The ids a free decoder chooses among: in the vocabulary, absent from it,
\* a timestamp (special) id.
FreeTokens == {10, 999, TIMESTAMP_BEGIN}

\* What load finds: whether onnxruntime can be imported, whether the two
\* model paths exist, what the model files hold ("corrupt": the session
\* constructor raises), and the directory of the tokenizer files.
Installation(ort, enc_exists, dec_exists, enc, dec, model_dir) ==
  [ort |-> ort, encoder_exists |-> enc_exists, decoder_exists |-> dec_exists,
   encoder_model |-> enc, decoder_model |-> dec, model_dir |-> model_dir]

Corrupt == [kind |-> "corrupt"]

FailingInstallations ==
  { Installation(FALSE, TRUE, TRUE, E3000, DScriptA, DirFull),
    Installation(FALSE, FALSE, TRUE, E3000, DScriptA, DirFull),
    Installation(TRUE, FALSE, TRUE, E3000, DScriptA, DirFull),
    Installation(TRUE, TRUE, FALSE, E3000, DScriptA, DirFull),
    Installation(TRUE, FALSE, FALSE, E3000, DScriptA, DirFull),
    Installation(TRUE, TRUE, TRUE, Corrupt, DScriptA, DirFull),
    Installation(TRUE, TRUE, TRUE, E3000, Corrupt, DirFull),
    Installation(TRUE, TRUE, TRUE, E3000, DScriptA, DirCorrupt) }

ScriptedInstallations ==
  FailingInstallations \cup
  { Installation(TRUE, TRUE, TRUE, E3000, DScriptA, DirFull),
    Installation(TRUE, TRUE, TRUE, E1500, DScriptB, DirFull),
    Installation(TRUE, TRUE, TRUE, ESym, DScriptA, DirNoVocab) }

FreeInstallations ==
  FailingInstallations \cup
  { Installation(TRUE, TRUE, TRUE, E3000, DFree, DirFull),
    Installation(TRUE, TRUE, TRUE, ESym, DFree, DirNoVocab) }

\* The audio inputs: a float array of n samples, or n bytes of 16-bit PCM;
\* data identifies the content.
W5 == [kind |-> "ndarray", n |-> 80000, data |-> 1]
WBytes == [kind |-> "bytes", n |-> 160000, data |-> 2]
WOdd == [kind |-> "bytes", n |-> 3, data |-> 2]
Waveforms == {W5, WBytes, WOdd}

\* Waveforms of no sample, of 30 seconds, and of more than 30 seconds.
W0 == [kind |-> "ndarray", n |-> 0, data |-> 1]
W30 == [kind |-> "ndarray", n |-> 480000, data |-> 1]
WLong == [kind |-> "ndarray", n |-> 480001, data |-> 1]
\* A waveform shorter than one window of the short-time transform.
WShort == [kind |-> "ndarray", n |-> 399, data |-> 1]
FeatureWaveforms == {W0, WShort, W5, WBytes, W30, WLong}

\* Installations that differ by the declared input shape of the encoder.
FeatureInstallations ==
  { Installation(TRUE, TRUE, TRUE, enc, DScriptA, DirFull) :
      enc \in {E3000, E1500, E2998, ESym, ENoneDim, E2D, EShapeRaises} }
  \cup { Installation(TRUE, FALSE, TRUE, E3000, DScriptA, DirFull) }

LanguageInputs == {"en", "hi", "xx"}

\* Elapsed wall-clock milliseconds of a call.
DurationsMs == {0, 7}

MaxBatch == 2
RECURSIVE SeqsUpTo(_, _)
SeqsUpTo(S, n) ==
  IF n = 0 THEN {<<>>}
  ELSE LET shorter == SeqsUpTo(S, n - 1)
       IN  shorter \cup {Append(q, x) : q \in shorter, x \in S}
AudioLists == SeqsUpTo(Waveforms, MaxBatch)

(***************************************************************************)
(* whisper.py: the state of one WhisperASR instance and of its caller      *)
(***************************************************************************)
VARIABLES
  _encoder_session,   \* self._encoder_session
  _decoder_session,   \* self._decoder_session
  _tokenizer,         \* self._tokenizer
  _expected_frames,   \* self._expected_frames
  pc,                 \* where the running call stands: "idle" between calls
  caller,             \* who called the running transcribe
  audio,              \* transcribe: the audio argument
  language,           \* transcribe, transcribe_batch: the language argument
  encoder_hidden,     \* transcribe: the encoder's output
  tokens,             \* _decode_with_decoder: tokens
  generated_tokens,   \* _decode_with_decoder: generated_tokens
  step,               \* _decode_with_decoder: iterations of the loop begun
  audio_list,         \* transcribe_batch: the audio_list argument
  results,            \* transcribe_batch: the list being built
  call,               \* the last call finished: arguments and outcome
  encoder_calls,      \* observed: encoder run() calls of the running transcribe
  decoder_log,        \* observed: the answers of the decoder calls of the running loop
  load_called,        \* observed: load was called on this instance
  _rows,              \* db.py: _db._rows
  entries             \* ledger.py: the list of entries of the ledger

store_vars == <<_rows, entries>>
self_vars == <<_encoder_session, _decoder_session, _tokenizer, _expected_frames>>
frame_vars == <<audio, language, encoder_hidden, tokens, generated_tokens, step,
                encoder_calls, decoder_log>>
batch_vars == <<audio_list, results>>
vars == <<self_vars, pc, caller, frame_vars, batch_vars, call, load_called, store_vars>>

Self ==
  [encoder_session |-> _encoder_session,
   decoder_session |-> _decoder_session,
   tokenizer |-> _tokenizer,
   expected_frames |-> _expected_frames,
   use_quantized |-> TRUE]

Raise(err) == [kind |-> "raise", err |-> err]
Return(value) == [kind |-> "return", value |-> value]

\* The value of `call` while a call is running.
Running(op) == [op |-> op, outcome |-> [kind |-> "running"]]

(***************************************************************************)
(* WhisperASR.__init__                                                     *)
(***************************************************************************)
\* The fields and the frames of a new instance.
InstanceInit ==
  /\ _encoder_session = None
  /\ _decoder_session = None
  /\ _tokenizer = None
  /\ _expected_frames = None
  /\ pc = "idle"
  /\ caller = "client"
  /\ audio = None
  /\ language = "en"
  /\ encoder_hidden = None
  /\ tokens = <<>>
  /\ generated_tokens = <<>>
  /\ step = 0
  /\ audio_list = <<>>
  /\ results = <<>>
  /\ encoder_calls = 0
  /\ decoder_log = <<>>
  /\ load_called = FALSE
  /\ _rows = <<>>
  /\ entries = <<>>

Init ==
  /\ InstanceInit
  /\ call = [op |-> "__init__", outcome |-> Return(None)]

\* A call of a function that keeps no state: its arguments, before it returns.
Calling(args) == [outcome |-> [kind |-> "running"]] @@ args

(***************************************************************************)
(* WhisperASR.load                                                         *)
(***************************************************************************)
\* Variant: the probe reads the dimension before the frames.
ProbeExpectedFrames_SecondDimension(session) ==
  IF session.shape_raises THEN PyInt(DEFAULT_FRAMES)
  ELSE LET in_shape == session.in_shape
       IN  IF Len(in_shape) >= 2 /\ in_shape[2].kind = "int"
             THEN PyInt(in_shape[2].v)
             ELSE PyInt(DEFAULT_FRAMES)

ProbeExpectedFrames(session) ==
  IF session.shape_raises THEN PyInt(DEFAULT_FRAMES)
  ELSE LET in_shape == session.in_shape
       IN  IF Len(in_shape) >= 3 /\ in_shape[3].kind = "int"
             THEN PyInt(in_shape[3].v)
             ELSE PyInt(DEFAULT_FRAMES)

\* Variant: the encoder session is made before the decoder path is tested.
load_EncoderSessionBeforeDecoderTest(self, env) ==
  IF ~env.ort
    THEN [self |-> self, outcome |-> Raise("ImportError")]
  ELSE IF ~env.encoder_exists
    THEN [self |-> self, outcome |-> Raise("FileNotFoundError")]
  ELSE IF env.encoder_model = Corrupt
    THEN [self |-> self, outcome |-> Raise("SessionError")]
  ELSE LET s1 == [self EXCEPT !.encoder_session = env.encoder_model]
       IN  IF ~env.decoder_exists
             THEN [self |-> s1, outcome |-> Raise("FileNotFoundError")]
           ELSE IF env.decoder_model = Corrupt
             THEN [self |-> s1, outcome |-> Raise("SessionError")]
           ELSE LET s2 == [s1 EXCEPT !.decoder_session = env.decoder_model]
                IN  IF env.model_dir.vocab_file = "corrupt"
                      THEN [self |-> s2, outcome |-> Raise("JSONDecodeError")]
                    ELSE LET s3 == [s2 EXCEPT !.tokenizer =
                                      WhisperTokenizer(env.model_dir)]
                             s4 == [s3 EXCEPT !.expected_frames =
                                      ProbeExpectedFrames(s3.encoder_session)]
                         IN  [self |-> s4, outcome |-> Return(TRUE)]

\* load on the instance `self` in the installation `env`: the instance
\* afterwards and the outcome.
load(self, env) ==
  IF ~env.ort
    THEN [self |-> self, outcome |-> Raise("ImportError")]
  ELSE IF ~env.encoder_exists
    THEN [self |-> self, outcome |-> Raise("FileNotFoundError")]
  ELSE IF ~env.decoder_exists
    THEN [self |-> self, outcome |-> Raise("FileNotFoundError")]
  ELSE IF env.encoder_model = Corrupt
    THEN [self |-> self, outcome |-> Raise("SessionError")]
  ELSE LET s1 == [self EXCEPT !.encoder_session = env.encoder_model]
       IN  IF env.decoder_model = Corrupt
             THEN [self |-> s1, outcome |-> Raise("SessionError")]
           ELSE LET s2 == [s1 EXCEPT !.decoder_session = env.decoder_model]
                IN  IF env.model_dir.vocab_file = "corrupt"
                      THEN [self |-> s2, outcome |-> Raise("JSONDecodeError")]
                    ELSE LET s3 == [s2 EXCEPT !.tokenizer =
                                      WhisperTokenizer(env.model_dir)]
                             s4 == [s3 EXCEPT !.expected_frames =
                                      ProbeExpectedFrames(s3.encoder_session)]
                         IN  [self |-> s4, outcome |-> Return(TRUE)]

Load(env) ==
  /\ pc = "idle"
  /\ LET r == load(Self, env)
     IN  /\ _encoder_session' = r.self.encoder_session
         /\ _decoder_session' = r.self.decoder_session
         /\ _tokenizer' = r.self.tokenizer
         /\ _expected_frames' = r.self.expected_frames
         /\ call' = [op |-> "load", ort |-> env.ort,
                     encoder_exists |-> env.encoder_exists,
                     decoder_exists |-> env.decoder_exists,
                     outcome |-> r.outcome]
  /\ load_called' = TRUE
  /\ UNCHANGED <<pc, caller, frame_vars, batch_vars, store_vars>>

(***************************************************************************)
(* WhisperASR.get_info                                                     *)
(***************************************************************************)
get_info(self) ==
  [model |-> "Whisper Tiny",
   backend |-> "ONNX Runtime",
   quantized |-> self.use_quantized,
   sample_rate |-> sample_rate,
   languages |-> DOMAIN languages,
   loaded |-> self.encoder_session # None /\ self.decoder_session # None]

GetInfo ==
  /\ pc = "idle"
  /\ call' = [op |-> "get_info", outcome |-> Return(get_info(Self))]
  /\ UNCHANGED <<self_vars, pc, caller, frame_vars, batch_vars, load_called, store_vars>>

(***************************************************************************)
(* WhisperASR._compute_mel_spectrogram and the feature tensor              *)
(***************************************************************************)
target_length == 30 * sample_rate

\* len(audio) after the pad/trim to 30 seconds.
PadTrimLength(n) ==
  IF n < target_length THEN n + (target_length - n) ELSE target_length

\* Variant: the frame count is rounded up, so that a last partial window
\* is counted.
FrameCount_RoundsUp(len) == 1 + (len - n_fft + hop_length - 1) \div hop_length

\* n_frames of a waveform of len samples (floor division, as Python's //).
FrameCount(len) == 1 + (len - n_fft) \div hop_length

\* len(audio[start:stop]) for 0 <= start <= stop: a slice stops at the end
\* of the array.
SliceLength(len, start, stop) ==
  (IF stop > len THEN len ELSE stop) - (IF start > len THEN len ELSE start)

\* len(frame) of frame i in the STFT loop.
FrameLength(len, i) ==
  SliceLength(len, i * hop_length, i * hop_length + n_fft)

\* The columns of stft that the loop leaves all-zero: the frames that do
\* not fill the window.
StftZeroFrames(len) ==
  {i \in 0 .. FrameCount(len) - 1 : FrameLength(len, i) # n_fft}

\* The mel spectrogram of the samples: its shape, and the content it is of.
_compute_mel_spectrogram(samples) ==
  LET len == PadTrimLength(samples.n)
      n_frames == FrameCount(len)
  IN  [kind |-> "ndarray", rows |-> n_mels, frames |-> n_frames,
       data |-> samples.data]

\* Variant: the mel is padded and never trimmed.
FitFrames_PadsOnly(mel, expected_frames) ==
  LET expected == IF expected_frames = None \/ expected_frames.v = 0
                    THEN DEFAULT_FRAMES ELSE expected_frames.v
  IN  IF mel.frames < expected
        THEN [mel EXCEPT !.frames = mel.frames + (expected - mel.frames)]
        ELSE mel

\* transcribe: mel padded or trimmed to the expected frames.
FitFrames(mel, expected_frames) ==
  LET expected == IF expected_frames = None \/ expected_frames.v = 0
                    THEN DEFAULT_FRAMES ELSE expected_frames.v
  IN  IF mel.frames < expected
        THEN [mel EXCEPT !.frames = mel.frames + (expected - mel.frames)]
      ELSE IF mel.frames > expected
        THEN [mel EXCEPT !.frames = expected]
      ELSE mel

\* transcribe: bytes to samples; np.frombuffer raises on a buffer that is no
\* multiple of the two-byte element.
ToSamples(a) ==
  IF a.kind = "bytes"
    THEN IF a.n % 2 # 0 THEN Raise("ValueError")
         ELSE Return([kind |-> "ndarray", n |-> a.n \div 2, data |-> a.data])
    ELSE Return(a)

(***************************************************************************)
(* The sessions' run()                                                     *)
(***************************************************************************)
\* self._encoder_session.run(...) on the feature tensor [1, rows, frames].
EncoderRun(session, mel) ==
  IF mel.data \in session.fail_on
    THEN Raise("InferenceError")
    ELSE Return([kind |-> "ndarray", data |-> mel.data,
                 of_shape |-> <<1, mel.rows, mel.frames>>])

\* The logits of a decoder call, kept as their argmax at the last position.
Logits(t) == [kind |-> "logits", argmax |-> t]

\* self._decoder_session.run(...) on the token input and the hidden state:
\* the answers it may give.  A free decoder raises, chooses end-of-text, or
\* chooses a token: any of FreeTokens first, and then the one it chose.
DecoderRun(session, token_input, hidden) ==
  LET n == Len(token_input)
  IN  IF session.free
        THEN {Raise("InferenceError"), Logits(EOT_TOKEN)} \cup
             {Logits(t) : t \in IF token_input[n] \in FreeTokens
                                  THEN {token_input[n]} ELSE FreeTokens}
        ELSE LET plan == session.plan[hidden.data]
             IN  IF plan.fail_len # 0 /\ n = plan.fail_len
                   THEN {Raise("InferenceError")}
                 ELSE IF plan.eot_len # 0 /\ n >= plan.eot_len
                   THEN {Logits(EOT_TOKEN)}
                 ELSE {Logits(IF token_input[n] = 10 THEN 11 ELSE 10)}

(***************************************************************************)
(* WhisperASR.transcribe, up to the decoding loop                          *)
(***************************************************************************)
\* Variant: the bytes are converted before the sessions are tested.
TranscribeEntry_ConvertsFirst(self, a, lang) ==
  IF ToSamples(a).kind = "raise"
    THEN [kind |-> "raise", err |-> ToSamples(a).err, audio |-> a,
          encoder_calls |-> 0]
  ELSE IF self.encoder_session = None \/ self.decoder_session = None
    THEN [kind |-> "raise", err |-> "NotLoaded", audio |-> a, encoder_calls |-> 0]
  ELSE LET samples == ToSamples(a).value
           mel == FitFrames(_compute_mel_spectrogram(samples),
                            self.expected_frames)
           enc == EncoderRun(self.encoder_session, mel)
       IN  IF enc.kind = "raise"
             THEN [kind |-> "raise", err |-> enc.err, audio |-> samples,
                   encoder_calls |-> 1]
           ELSE IF self.tokenizer = None
             THEN [kind |-> "raise", err |-> "AttributeError",
                   audio |-> samples, encoder_calls |-> 1]
           ELSE [kind |-> "decode", audio |-> samples,
                 encoder_hidden |-> enc.value,
                 tokens |-> build_decoder_input(lang, "transcribe", TRUE),
                 encoder_calls |-> 1]

\* transcribe(audio, language) on `self`, from its first line to the first
\* line of the loop of _decode_with_decoder: it raises, or it enters the
\* loop with these locals.
TranscribeEntry(self, a, lang) ==
  IF self.encoder_session = None \/ self.decoder_session = None
    THEN [kind |-> "raise", err |-> "NotLoaded", audio |-> a, encoder_calls |-> 0]
  ELSE LET conv == ToSamples(a)
       IN  IF conv.kind = "raise"
             THEN [kind |-> "raise", err |-> conv.err, audio |-> a,
                   encoder_calls |-> 0]
           ELSE LET samples == conv.value
                    mel == FitFrames(_compute_mel_spectrogram(samples),
                                     self.expected_frames)
                    enc == EncoderRun(self.encoder_session, mel)
                IN  IF enc.kind = "raise"
                      THEN [kind |-> "raise", err |-> enc.err, audio |-> samples,
                            encoder_calls |-> 1]
                    ELSE IF self.tokenizer = None
                      THEN [kind |-> "raise", err |-> "AttributeError",
                            audio |-> samples, encoder_calls |-> 1]
                    ELSE [kind |-> "decode", audio |-> samples,
                          encoder_hidden |-> enc.value,
                          tokens |-> build_decoder_input(lang, "transcribe", TRUE),
                          encoder_calls |-> 1]

\* The record of a transcribe call that raised.
TranscribeRaised(e, lang) ==
  [op |-> "transcribe", audio |-> e.audio, language |-> lang,
   outcome |-> Raise(e.err), encoder_calls |-> e.encoder_calls,
   decoder_log |-> <<>>]

\* The locals of a transcribe call that is over.
FrameCleared ==
  /\ audio' = None
  /\ encoder_hidden' = None
  /\ tokens' = <<>>
  /\ generated_tokens' = <<>>
  /\ step' = 0
  /\ encoder_calls' = 0
  /\ decoder_log' = <<>>

\* The locals of a transcribe call that enters the loop.
FrameEntered(e) ==
  /\ audio' = e.audio
  /\ encoder_hidden' = e.encoder_hidden
  /\ tokens' = e.tokens
  /\ generated_tokens' = <<>>
  /\ step' = 0
  /\ encoder_calls' = e.encoder_calls
  /\ decoder_log' = <<>>

\* Variant: a transcribe that enters the loop takes the frame count of its
\* mel spectrogram as the expected one.
Transcribe_AdaptsExpectedFrames(a, lang) ==
  /\ pc = "idle"
  /\ language' = lang
  /\ caller' = "client"
  /\ LET e == TranscribeEntry(Self, a, lang)
     IN  IF e.kind = "raise"
           THEN /\ call' = TranscribeRaised(e, lang)
                /\ pc' = "idle"
                /\ FrameCleared
                /\ UNCHANGED _expected_frames
           ELSE /\ FrameEntered(e)
                /\ pc' = "decode_loop"
                /\ call' = Running("transcribe")
                /\ _expected_frames' =
                     PyInt(_compute_mel_spectrogram(e.audio).frames)
  /\ UNCHANGED <<_encoder_session, _decoder_session, _tokenizer, batch_vars,
                 load_called, store_vars>>

Transcribe(a, lang) ==
  /\ pc = "idle"
  /\ language' = lang
  /\ caller' = "client"
  /\ LET e == TranscribeEntry(Self, a, lang)
     IN  IF e.kind = "raise"
           THEN /\ call' = TranscribeRaised(e, lang)
                /\ pc' = "idle"
                /\ FrameCleared
           ELSE /\ FrameEntered(e)
                /\ pc' = "decode_loop"
                /\ call' = Running("transcribe")
  /\ UNCHANGED <<self_vars, batch_vars, load_called, store_vars>>

(***************************************************************************)
(* WhisperASR._decode_with_decoder                                         *)
(***************************************************************************)
\* Variant: the chosen token is appended before the end-of-text test.
DecodeIteration_AppendsEot(toks, generated, out) ==
  IF out.kind = "raise"
    THEN [tokens |-> toks, generated_tokens |-> generated, brk |-> TRUE]
    ELSE [tokens |-> Append(toks, out.argmax),
          generated_tokens |-> Append(generated, out.argmax),
          brk |-> out.argmax = EOT_TOKEN]

\* Variant: a failed decoder call is skipped and the loop goes on.
DecodeIteration_ContinuesOnFailure(toks, generated, out) ==
  IF out.kind = "raise"
    THEN [tokens |-> toks, generated_tokens |-> generated, brk |-> FALSE]
  ELSE IF out.argmax = EOT_TOKEN
    THEN [tokens |-> toks, generated_tokens |-> generated, brk |-> TRUE]
  ELSE [tokens |-> Append(toks, out.argmax),
        generated_tokens |-> Append(generated, out.argmax),
        brk |-> FALSE]

\* Variant: the chosen token goes to the generated sequence only.
DecodeIteration_GeneratedOnly(toks, generated, out) ==
  IF out.kind = "raise" \/ out.argmax = EOT_TOKEN
    THEN [tokens |-> toks, generated_tokens |-> generated, brk |-> TRUE]
    ELSE [tokens |-> toks,
          generated_tokens |-> Append(generated, out.argmax), brk |-> FALSE]

\* One pass of the body of the loop, given the answer of the decoder call:
\* the two lists afterwards, and whether the pass left the loop (break).
DecodeIteration(toks, generated, out) ==
  IF out.kind = "raise"
    THEN [tokens |-> toks, generated_tokens |-> generated, brk |-> TRUE]
  ELSE LET next_token == out.argmax
       IN  IF next_token = EOT_TOKEN
             THEN [tokens |-> toks, generated_tokens |-> generated, brk |-> TRUE]
             ELSE [tokens |-> Append(toks, next_token),
                   generated_tokens |-> Append(generated, next_token),
                   brk |-> FALSE]

\* Variant: one pass too many.
LoopOver_OffByOne(steps_done, brk) == brk \/ steps_done > max_tokens

\* for _ in range(max_tokens): whether the loop is over after a pass.
LoopOver(steps_done, brk) == brk \/ steps_done >= max_tokens

DecodeStep ==
  /\ pc = "decode_loop"
  /\ \E out \in DecoderRun(_decoder_session, tokens, encoder_hidden) :
       LET r == DecodeIteration(tokens, generated_tokens, out)
       IN  /\ tokens' = r.tokens
           /\ generated_tokens' = r.generated_tokens
           /\ step' = step + 1
           /\ decoder_log' = Append(decoder_log, out)
           /\ pc' = IF LoopOver(step + 1, r.brk) THEN "decode_done" ELSE "decode_loop"
  /\ UNCHANGED <<self_vars, caller, audio, language, encoder_hidden, encoder_calls,
                 batch_vars, call, load_called, store_vars>>

\* Variant: the fallback and the confidence follow the decoded text.
DecodeOutput_ByText(self, generated, lang) ==
  LET decoded == IF generated # <<>>
                   THEN decode(self.tokenizer, generated, TRUE) ELSE ""
  IN  [text |-> IF decoded # "" THEN decoded
                ELSE "[Audio in " \o DictGet(languages, lang, lang) \o "]",
       confidence |-> IF decoded # "" THEN HIGH_CONFIDENCE ELSE LOW_CONFIDENCE]

\* After the loop: the text and the confidence.
DecodeOutput(self, generated, lang) ==
  [text |-> IF generated # <<>>
              THEN decode(self.tokenizer, generated, TRUE)
              ELSE "[Audio in " \o DictGet(languages, lang, lang) \o "]",
   confidence |-> IF generated # <<>> THEN HIGH_CONFIDENCE ELSE LOW_CONFIDENCE]

(***************************************************************************)
(* WhisperASR.transcribe, after the decoding loop                          *)
(***************************************************************************)
\* Variant: the segment ends with the padded audio.
TranscribeResult_EndOfPadded(samples, lang, out, duration_ms) ==
  [text |-> out.text,
   language |-> lang,
   confidence |-> out.confidence,
   segments |-> << [start |-> [num |-> 0, den |-> 1],
                    end |-> [num |-> PadTrimLength(samples.n),
                             den |-> sample_rate],
                    text |-> out.text,
                    confidence |-> out.confidence] >>,
   duration_ms |-> duration_ms]

\* The dict transcribe returns.
TranscribeResult(samples, lang, out, duration_ms) ==
  [text |-> out.text,
   language |-> lang,
   confidence |-> out.confidence,
   segments |-> << [start |-> [num |-> 0, den |-> 1],
                    end |-> [num |-> samples.n, den |-> sample_rate],
                    text |-> out.text,
                    confidence |-> out.confidence] >>,
   duration_ms |-> duration_ms]

TranscribeReturn ==
  /\ pc = "decode_done"
  /\ \E d \in DurationsMs :
       LET result == TranscribeResult(
                       audio, language,
                       DecodeOutput(Self, generated_tokens, language), d)
       IN  IF caller = "client"
             THEN /\ call' = [op |-> "transcribe", audio |-> audio,
                              language |-> language, outcome |-> Return(result),
                              encoder_calls |-> encoder_calls,
                              decoder_log |-> decoder_log]
                  /\ pc' = "idle"
                  /\ UNCHANGED results
             ELSE /\ results' = Append(results, result)
                  /\ pc' = "batch_next"
                  /\ UNCHANGED call
  /\ FrameCleared
  /\ UNCHANGED <<self_vars, caller, language, audio_list, load_called, store_vars>>

(***************************************************************************)
(* WhisperASR.transcribe_batch                                             *)
(***************************************************************************)
\* Variant: the list is walked from its end.
BatchItemCall_Reversed(list, i, lang) ==
  [audio |-> list[Len(list) + 1 - i], language |-> lang]

\* The arguments of the transcribe call for item i of the list.
BatchItemCall(list, i, lang) == [audio |-> list[i], language |-> lang]

TranscribeBatch(list, lang) ==
  /\ pc = "idle"
  /\ audio_list' = list
  /\ language' = lang
  /\ results' = <<>>
  /\ caller' = "transcribe_batch"
  /\ pc' = "batch_next"
  /\ call' = Running("transcribe_batch")
  /\ UNCHANGED <<self_vars, audio, encoder_hidden, tokens, generated_tokens, step,
                 encoder_calls, decoder_log, load_called, store_vars>>

\* The list comprehension: the next item's transcribe call, or the end.
BatchNext ==
  /\ pc = "batch_next"
  /\ IF Len(results) = Len(audio_list)
       THEN /\ call' = [op |-> "transcribe_batch", audio_list |-> audio_list,
                        language |-> language, outcome |-> Return(results),
                        items_called |-> Len(results)]
            /\ pc' = "idle"
            /\ caller' = "client"
            /\ audio_list' = <<>>
            /\ results' = <<>>
            /\ UNCHANGED frame_vars
       ELSE LET args == BatchItemCall(audio_list, Len(results) + 1, language)
                e == TranscribeEntry(Self, args.audio, args.language)
            IN  IF e.kind = "raise"
                  THEN /\ call' = [op |-> "transcribe_batch",
                                   audio_list |-> audio_list,
                                   language |-> language,
                                   outcome |-> Raise(e.err),
                                   items_called |-> Len(results) + 1]
                       /\ pc' = "idle"
                       /\ caller' = "client"
                       /\ audio_list' = <<>>
                       /\ results' = <<>>
                       /\ UNCHANGED frame_vars
                  ELSE /\ FrameEntered(e)
                       /\ language' = args.language
                       /\ pc' = "decode_loop"
                       /\ UNCHANGED <<caller, batch_vars, call>>
  /\ UNCHANGED <<self_vars, load_called, store_vars>>

(***************************************************************************)
(* transcribe as one function, for sessions that answer deterministically  *)
(***************************************************************************)
\* n more passes of the loop of _decode_with_decoder from the state st (its
\* two lists, whether the loop was left), the first half and then the second.
RECURSIVE RunDecodeLoop(_, _, _, _)
RunDecodeLoop(session, hidden, st, n) ==
  IF st.brk \/ n = 0 THEN st
  ELSE IF n = 1
    THEN DecodeIteration(st.tokens, st.generated_tokens,
                         CHOOSE o \in DecoderRun(session, st.tokens, hidden) : TRUE)
  ELSE RunDecodeLoop(session, hidden,
                     RunDecodeLoop(session, hidden, st, n \div 2),
                     n - n \div 2)

\* transcribe(a, lang) on `self` taking duration_ms milliseconds: what it
\* returns or raises.
transcribe(self, a, lang, duration_ms) ==
  LET e == TranscribeEntry(self, a, lang)
  IN  IF e.kind = "raise" THEN Raise(e.err)
      ELSE LET st == RunDecodeLoop(
                       self.decoder_session, e.encoder_hidden,
                       [tokens |-> e.tokens, generated_tokens |-> <<>>,
                        brk |-> FALSE],
                       max_tokens)
           IN  Return(TranscribeResult(
                        e.audio, lang,
                        DecodeOutput(self, st.generated_tokens, lang),
                        duration_ms))

(***************************************************************************)
(* Calls on the loaded tokenizer                                           *)
(***************************************************************************)
TaskInputs == {"transcribe", "translate", "summarize"}
TokenizerLanguageInputs == LanguageInputs \cup {"su", ""}

BuildDecoderInput(lang, task, no_timestamps) ==
  /\ pc = "idle"
  /\ _tokenizer # None
  /\ call' = [op |-> "build_decoder_input", language |-> lang, task |-> task,
              no_timestamps |-> no_timestamps,
              outcome |-> Return(build_decoder_input(lang, task, no_timestamps))]
  /\ UNCHANGED <<self_vars, pc, caller, frame_vars, batch_vars, load_called, store_vars>>

\* decode(build_decoder_input(language, task, no_timestamps), skip_special_tokens)
DecodeSeed(lang, task, no_timestamps, skip_special_tokens) ==
  /\ pc = "idle"
  /\ _tokenizer # None
  /\ LET seed == build_decoder_input(lang, task, no_timestamps)
     IN  call' = [op |-> "decode", token_ids |-> seed,
                  seed_of |-> [language |-> lang, task |-> task,
                               no_timestamps |-> no_timestamps],
                  skip_special_tokens |-> skip_special_tokens,
                  outcome |-> Return(decode(_tokenizer, seed, skip_special_tokens))]
  /\ UNCHANGED <<self_vars, pc, caller, frame_vars, batch_vars, load_called, store_vars>>

(***************************************************************************)
(* Calls on a tokenizer constructed over a model directory                 *)
(***************************************************************************)
TokenizerDirs == {DirFull, DirNoVocab, DirNoMerges, DirEmpty}

\* Ids in the vocabulary (10, 11, 12), absent from it (999), end-of-text,
\* start-of-transcript.
TokenIds == {10, 11, 12, 999, EOT_TOKEN, SOT_TOKEN}
MaxIds == 3
TokenLists == SeqsUpTo(TokenIds, MaxIds)

\* Characters: a key of the vocabulary (GNEWLINE), and two that are none.
TextChars == {GNEWLINE, "h", "z"}
MaxText == 3
Texts == SeqsUpTo(TextChars, MaxText)

\* Language codes: the table's, and strings that are not in it.
LanguageStrings == LanguageCodes \cup {"xx", "", "EN", "english"}

\* The calls made, each with its arguments.
TokenizerInputs ==
  {[op |-> "WhisperTokenizer", model_dir |-> d] :
     d \in TokenizerDirs \cup {DirCorrupt}}
  \cup {[op |-> "get_language_token", language |-> l] : l \in LanguageStrings}
  \cup {[op |-> "decode", model_dir |-> d, token_ids |-> t,
          skip_special_tokens |-> k] :
          d \in TokenizerDirs, t \in TokenLists, k \in BOOLEAN}
  \cup {[op |-> "encode", model_dir |-> d, text |-> t] :
          d \in TokenizerDirs, t \in Texts}

InitTokenizer ==
  /\ InstanceInit
  /\ call \in {Calling(args) : args \in TokenizerInputs}

NewTokenizer ==
  /\ call.op = "WhisperTokenizer" /\ call.outcome.kind = "running"
  /\ call' = [call EXCEPT !.outcome =
                IF call.model_dir.vocab_file = "corrupt"
                  THEN Raise("JSONDecodeError")
                  ELSE Return(WhisperTokenizer(call.model_dir))]
  /\ UNCHANGED <<self_vars, pc, caller, frame_vars, batch_vars, load_called, store_vars>>

GetLanguageToken ==
  /\ call.op = "get_language_token" /\ call.outcome.kind = "running"
  /\ call' = [call EXCEPT !.outcome = Return(get_language_token(call.language))]
  /\ UNCHANGED <<self_vars, pc, caller, frame_vars, batch_vars, load_called, store_vars>>

Decode ==
  /\ call.op = "decode" /\ call.outcome.kind = "running"
  /\ call' = [call EXCEPT !.outcome =
                Return(decode(WhisperTokenizer(call.model_dir), call.token_ids,
                              call.skip_special_tokens))]
  /\ UNCHANGED <<self_vars, pc, caller, frame_vars, batch_vars, load_called, store_vars>>

Encode ==
  /\ call.op = "encode" /\ call.outcome.kind = "running"
  /\ call' = [call EXCEPT !.outcome =
                Return(encode(WhisperTokenizer(call.model_dir), call.text))]
  /\ UNCHANGED <<self_vars, pc, caller, frame_vars, batch_vars, load_called, store_vars>>

(***************************************************************************)
(* risk.py: calculate_risk                                                 *)
(***************************************************************************)
\* Amounts and totals are counted in ten-thousandths: float(amt) / 10000.0
\* of an integer amount is amt of them, 0.5 is 5000, 0.25 is 2500.
RISK_SCALE == 10000
SEVERITY_HIGH == 5000
SEVERITY_MEDIUM == 2500
AMOUNT_CAP == 5000

\* str.lower() on the severities in use.
Lower(str) ==
  CASE str = "MEDIUM" -> "medium"
    [] str = "Critical" -> "critical"
    [] OTHER -> str

\* float(amt): raises on a string that is no number and on None.
Float(amt) ==
  IF amt.kind = "int" THEN Return(amt.v)
  ELSE IF amt.kind = "str" THEN Raise("ValueError")
  ELSE Raise("TypeError")

Min(a, b) == IF a < b THEN a ELSE b

\* One pass of the loop over the events.
RiskPass(e, st) ==
  LET sev == Lower(e.severity)
      t1 == IF sev \in {"high", "critical"} THEN st.raw_total + SEVERITY_HIGH
            ELSE IF sev \in {"medium"} THEN st.raw_total + SEVERITY_MEDIUM
            ELSE st.raw_total
      amt == Float(e.amount)
      t2 == IF amt.kind = "return" THEN t1 + Min(AMOUNT_CAP, amt.value) ELSE t1
  IN  [raw_total |-> t2, count |-> st.count + 1]

RECURSIVE RiskLoop(_, _, _)
RiskLoop(events, i, st) ==
  IF i > Len(events) THEN st
  ELSE RiskLoop(events, i + 1, RiskPass(events[i], st))

\* The score is kept as the fraction num/den; the band thresholds 0.33 and
\* 0.66 are compared in hundredths.
calculate_risk(events) ==
  LET st == RiskLoop(events, 1, [raw_total |-> 0, count |-> 0])
      score == IF st.count > 0
                 THEN [num |-> Min(RISK_SCALE * st.count, st.raw_total),
                       den |-> RISK_SCALE * st.count]
                 ELSE [num |-> 0, den |-> 1]
      band == IF score.num * 100 < 33 * score.den THEN "low"
              ELSE IF score.num * 100 < 66 * score.den THEN "medium"
              ELSE "high"
  IN  [score |-> score, band |-> band, count |-> st.count]

\* Events: severities that count and that do not, amounts above the cap,
\* below it, negative, and not a number.
Severities == {"high", "Critical", "MEDIUM", "low"}
Amounts == {PyInt(25000), PyInt(5000), PyInt(0 - 5000), PyStr("n/a")}
Events == {[severity |-> sev, amount |-> amt] : sev \in Severities, amt \in Amounts}
MaxEvents == 2
EventLists == SeqsUpTo(Events, MaxEvents)

InitRisk ==
  /\ InstanceInit
  /\ call \in {Calling([op |-> "calculate_risk", events |-> events]) :
                 events \in EventLists}

CalculateRisk ==
  /\ call.op = "calculate_risk" /\ call.outcome.kind = "running"
  /\ call' = [call EXCEPT !.outcome = Return(calculate_risk(call.events))]
  /\ UNCHANGED <<self_vars, pc, caller, frame_vars, batch_vars, load_called, store_vars>>

(***************************************************************************)
(* db.py: the in-memory store                                              *)
(***************************************************************************)
\* dict.get(k): the value of the key, None without it.
RowGet(r, k) == IF k \in DOMAIN r THEN r[k] ELSE None

\* all(r.get(k) == v for k, v in where.items())
Matches(r, where) == \A k \in DOMAIN where : RowGet(r, k) = where[k]

\* rows[start:] of Python, for a start of either sign.
SliceFrom(rows, start) ==
  LET n == Len(rows)
      from == IF start < 0 THEN (IF n + start < 0 THEN 0 ELSE n + start)
              ELSE (IF start > n THEN n ELSE start)
  IN  SubSeq(rows, from + 1, n)

\* _InMemoryDB.query on the rows of the store.
db_query(rows, where, limit) ==
  LET r1 == IF where # None /\ DOMAIN where # {}
              THEN SelectSeq(rows, LAMBDA r : Matches(r, where)) ELSE rows
      r2 == IF limit # None THEN SliceFrom(r1, 0 - limit.v) ELSE r1
  IN  r2

\* Rows: two transactions of different users and a row without a user.
Rows ==
  { [type |-> PyStr("txn"), user |-> PyStr("u1")],
    [type |-> PyStr("txn"), user |-> PyStr("u2")],
    [type |-> PyStr("alert")] }
EmptyDict == [k \in {} |-> None]
Wheres ==
  { None, EmptyDict, [type |-> PyStr("txn")],
    [type |-> PyStr("txn"), user |-> PyStr("u1")], [user |-> PyStr("u9")] }
Limits == {None, PyInt(0), PyInt(1), PyInt(2)}
MaxRows == 3

\* insert(row)
Insert(row) ==
  /\ pc = "idle"
  /\ Len(_rows) < MaxRows
  /\ _rows' = Append(_rows, row)
  /\ call' = [op |-> "insert", row |-> row, outcome |-> Return(row)]
  /\ UNCHANGED <<self_vars, pc, caller, frame_vars, batch_vars, load_called,
                 entries>>

\* query(where, limit)
Query(where, limit) ==
  /\ pc = "idle"
  /\ call' = [op |-> "query", where |-> where, limit |-> limit,
              outcome |-> Return(db_query(_rows, where, limit))]
  /\ UNCHANGED <<self_vars, pc, caller, frame_vars, batch_vars, load_called,
                 store_vars>>

(***************************************************************************)
(* security/audit-ledger/ledger.py                                         *)
(***************************************************************************)
GENESIS == "genesis"

\* _hash: the SHA-256 digest of str(ts), actor, action and prev_hash fed in
\* that order, i.e. of their concatenation; the digest is kept as the text
\* it is the digest of.
_hash(ts, actor, action, prev_hash) ==
  "sha256(" \o ToString(ts) \o actor \o action \o prev_hash \o ")"

Entry(ts, actor, action, prev_hash, hash) ==
  [ts |-> ts, actor |-> actor, action |-> action, prev_hash |-> prev_hash,
   hash |-> hash]

\* Variant: every entry is chained to the genesis marker.
append_entry_AlwaysGenesis(es, actor, action, ts) ==
  Append(es, Entry(ts, actor, action, GENESIS, _hash(ts, actor, action, GENESIS)))

\* append_entry: the list after the call; ts is the clock reading.
append_entry(es, actor, action, ts) ==
  LET prev == IF es # <<>> THEN es[Len(es)].hash ELSE GENESIS
      digest == _hash(ts, actor, action, prev)
  IN  Append(es, Entry(ts, actor, action, prev, digest))

\* verify_chain's loop from entry i on, prev being the hash expected there.
RECURSIVE VerifyFrom(_, _, _)
VerifyFrom(es, i, prev) ==
  IF i > Len(es) THEN TRUE
  ELSE LET e == es[i]
       IN  IF e.prev_hash # prev THEN FALSE
           ELSE IF e.hash # _hash(e.ts, e.actor, e.action, e.prev_hash) THEN FALSE
           ELSE VerifyFrom(es, i + 1, e.hash)

verify_chain(es) == VerifyFrom(es, 1, GENESIS)

\* What the ledger's callers pass, and what the clock reads (it may stand
\* still between two calls).
Actors == {"alice", "bob"}
AuditActions == {"login", "export"}
ClockReadings == {1000, 1001}
MaxEntries == 3

\* append_entry(entries, actor, action)
AppendEntry(actor, action, ts) ==
  /\ pc = "idle"
  /\ Len(entries) < MaxEntries
  /\ entries' = append_entry(entries, actor, action, ts)
  /\ call' = [op |-> "append_entry", actor |-> actor, action |-> action,
              outcome |-> Return(entries'[Len(entries')])]
  /\ UNCHANGED <<self_vars, pc, caller, frame_vars, batch_vars, load_called,
                 _rows>>

\* verify_chain(entries)
VerifyChain ==
  /\ pc = "idle"
  /\ call' = [op |-> "verify_chain", outcome |-> Return(verify_chain(entries))]
  /\ UNCHANGED <<self_vars, pc, caller, frame_vars, batch_vars, load_called,
                 store_vars>>

(***************************************************************************)
(* Specifications                                                          *)
(***************************************************************************)
TokenizerCalls ==
  \E lang \in TokenizerLanguageInputs, task \in TaskInputs, nots \in BOOLEAN :
    \/ BuildDecoderInput(lang, task, nots)
    \/ \E skip \in BOOLEAN : DecodeSeed(lang, task, nots, skip)

\* The instance with scripted (deterministic) sessions, all operations.
Next ==
  \/ \E env \in ScriptedInstallations : Load(env)
  \/ GetInfo
  \/ \E a \in Waveforms, lang \in LanguageInputs : Transcribe(a, lang)
  \/ DecodeStep
  \/ TranscribeReturn
  \/ \E list \in AudioLists, lang \in LanguageInputs : TranscribeBatch(list, lang)
  \/ BatchNext
  \/ TokenizerCalls

Spec == Init /\ [][Next]_vars

\* The instance with a decoder that may answer anything: load and transcribe.
NextAnyDecoder ==
  \/ \E env \in FreeInstallations : Load(env)
  \/ \E a \in Waveforms, lang \in LanguageInputs : Transcribe(a, lang)
  \/ DecodeStep
  \/ TranscribeReturn

SpecAnyDecoder == Init /\ [][NextAnyDecoder]_vars

\* A tokenizer on its own: its construction over a model directory and the
\* calls on it, each applied to its arguments.
NextTokenizer ==
  \/ NewTokenizer
  \/ GetLanguageToken
  \/ Decode
  \/ Encode

SpecTokenizer == InitTokenizer /\ [][NextTokenizer]_vars

\* The instance over encoders of every declared input shape, on waveforms
\* of every length: load and transcribe.
NextFeatures ==
  \/ \E env \in FeatureInstallations : Load(env)
  \/ \E a \in FeatureWaveforms, lang \in {"en", "xx"} : Transcribe(a, lang)
  \/ DecodeStep
  \/ TranscribeReturn

SpecFeatures == Init /\ [][NextFeatures]_vars

\* calculate_risk applied to its arguments.
NextRisk == CalculateRisk

SpecRisk == InitRisk /\ [][NextRisk]_vars

\* The in-memory store: inserts and queries.
NextDb ==
  \/ \E row \in Rows : Insert(row)
  \/ \E where \in Wheres, limit \in Limits : Query(where, limit)

SpecDb == Init /\ [][NextDb]_vars

\* The audit ledger: appends at any clock reading, and verifications.
NextLedger ==
  \/ \E actor \in Actors, action \in AuditActions, ts \in ClockReadings :
       AppendEntry(actor, action, ts)
  \/ VerifyChain

SpecLedger == Init /\ [][NextLedger]_vars

(***************************************************************************)
(* Properties                                                              *)
(***************************************************************************)
InDecode == pc \in {"decode_loop", "decode_done"}

\* The decoder seed of the running transcribe.
Seed == build_decoder_input(language, "transcribe", TRUE)

\* The tokens chosen by the first n answers of a log.
Chosen(log, n) == [i \in 1..n |-> log[i].argmax]

LastAnswer(log) == log[Len(log)]
EndsWithEot(log) ==
  log # <<>> /\ LastAnswer(log).kind = "logits" /\ LastAnswer(log).argmax = EOT_TOKEN
EndsWithFailure(log) ==
  log # <<>> /\ LastAnswer(log).kind = "raise"
NoEotIn(log) ==
  \A i \in 1..Len(log) : log[i].kind = "logits" /\ log[i].argmax # EOT_TOKEN

\* C1: whatever the decoder answers, the decoding loop makes at most 50
\* decoder calls (it is inside the loop only while fewer than 50 were made,
\* and every pass makes one), and at every moment the generated sequence
\* holds at most 50 tokens and the working sequence at most seed + 50.
C1_DecodeWithinBudget ==
  /\ Len(decoder_log) <= max_tokens
  /\ step = Len(decoder_log)
  /\ pc = "decode_loop" => Len(decoder_log) < max_tokens
  /\ Len(generated_tokens) <= max_tokens
  /\ InDecode => Len(tokens) <= Len(Seed) + max_tokens

\* C1 witness: a decoder that never chose end-of-text and never failed was
\* called 50 times and the loop is over with 50 generated tokens.
C1_Witness ==
  /\ pc = "decode_done"
  /\ Len(decoder_log) = max_tokens
  /\ NoEotIn(decoder_log)
  /\ Len(generated_tokens) = max_tokens

\* C2: once the greedy choice of a decoder call is end-of-text the loop is
\* over (no further decoder call), that token is appended to neither list,
\* and the generated sequence never holds end-of-text.
C2_EotStopsWithoutAppend ==
  /\ \A i \in 1..Len(generated_tokens) : generated_tokens[i] # EOT_TOKEN
  /\ EndsWithEot(decoder_log) =>
       /\ pc = "decode_done"
       /\ generated_tokens = Chosen(decoder_log, Len(decoder_log) - 1)
       /\ tokens = Seed \o generated_tokens
  /\ \A i \in 1..(Len(decoder_log) - 1) : ~EndsWithEot(SubSeq(decoder_log, 1, i))

\* C2 witness: end-of-text was chosen at the third call, after two tokens.
C2_Witness ==
  /\ pc = "decode_done"
  /\ EndsWithEot(decoder_log)
  /\ Len(decoder_log) = 3
  /\ Len(generated_tokens) = 2

\* C3: once a decoder call has failed, at call k, the loop is over (no retry,
\* no further call), the generated sequence is the k-1 tokens chosen before,
\* and the transcribe call returns: its text and confidence are those of
\* these k-1 tokens.
C3_FailureStopsAndKeeps ==
  /\ EndsWithFailure(decoder_log) =>
       /\ pc = "decode_done"
       /\ generated_tokens = Chosen(decoder_log, Len(decoder_log) - 1)
       /\ tokens = Seed \o generated_tokens
  /\ \A i \in 1..(Len(decoder_log) - 1) : ~EndsWithFailure(SubSeq(decoder_log, 1, i))
  /\ (/\ call.op = "transcribe"
      /\ call.outcome.kind # "running"
      /\ EndsWithFailure(call.decoder_log)) =>
       /\ call.outcome.kind = "return"
       /\ LET kept == Chosen(call.decoder_log, Len(call.decoder_log) - 1)
              out == DecodeOutput(Self, kept, call.language)
          IN  /\ call.outcome.value.text = out.text
              /\ call.outcome.value.confidence = out.confidence

\* C3 witness: a transcribe call returned whose third decoder call failed.
C3_Witness ==
  /\ call.op = "transcribe"
  /\ call.outcome.kind = "return"
  /\ EndsWithFailure(call.decoder_log)
  /\ Len(call.decoder_log) = 3
  /\ call.outcome.value.confidence = HIGH_CONFIDENCE

Finished(c) == c.outcome.kind # "running"

\* C4 (as claimed): a transcribe call on a loaded instance never raises
\* because a session's run() failed.
C4_InferenceFailureNeverRaised ==
  (call.op = "transcribe" /\ call.outcome.kind = "raise") =>
     call.outcome.err # "InferenceError"

\* C5: while load was never called, every transcribe call, whatever its
\* audio and language, raises NotLoaded without a run() of either session;
\* no decoding loop is ever entered.
C5_NotLoadedBeforeLoad ==
  ~load_called =>
     /\ ~InDecode
     /\ encoder_calls = 0
     /\ decoder_log = <<>>
     /\ call.op = "transcribe" =>
          /\ call.outcome = Raise("NotLoaded")
          /\ call.encoder_calls = 0
          /\ call.decoder_log = <<>>

\* C5 witness: transcribe of a byte string of odd length, in a language
\* unknown to both tables, before any load.
C5_Witness ==
  /\ ~load_called
  /\ call.op = "transcribe"
  /\ call.audio = WOdd
  /\ call.language = "xx"

\* C6 (as claimed): on a loaded instance, a transcribe_batch call still
\* goes through every item on which transcribe alone returns, whatever
\* happened to the items before it.
C6_BatchGoesThroughEveryItem ==
  (call.op = "transcribe_batch" /\ Finished(call) /\ get_info(Self).loaded) =>
     \A i \in 1..Len(call.audio_list) :
       transcribe(Self, call.audio_list[i], call.language, 0).kind = "return"
         => i <= call.items_called

\* C7: with sessions that answer deterministically, the list transcribe_batch
\* returns has one result per item, in the order of the list, and result i
\* is what transcribe returns on item i alone in the same language (the
\* duration aside).
C7_BatchEqualsStandalone ==
  (call.op = "transcribe_batch" /\ call.outcome.kind = "return") =>
     LET rs == call.outcome.value
     IN  /\ Len(rs) = Len(call.audio_list)
         /\ \A i \in 1..Len(rs) :
              transcribe(Self, call.audio_list[i], call.language,
                         rs[i].duration_ms) = Return(rs[i])

\* C7 witness: a batch of two items returned two different results.
C7_Witness ==
  /\ call.op = "transcribe_batch"
  /\ call.outcome.kind = "return"
  /\ Len(call.audio_list) = 2
  /\ call.language = "hi"
  /\ call.outcome.value[1].text # call.outcome.value[2].text
  /\ call.outcome.value[1].confidence = LOW_CONFIDENCE
  /\ call.outcome.value[2].confidence = HIGH_CONFIDENCE

NotLoadedForEveryInput(self) ==
  \A a \in Waveforms, lang \in LanguageInputs :
    LET e == TranscribeEntry(self, a, lang)
    IN  e.kind = "raise" /\ e.err = "NotLoaded"

PathAbsent(c) == ~c.encoder_exists \/ ~c.decoder_exists

\* C8 (as claimed): a load with the encoder or the decoder path absent
\* raises NotFound, and after it both sessions are unset, get_info reports
\* loaded = false and transcribe fails with NotLoaded.
C8_NotFoundWheneverPathAbsent ==
  (call.op = "load" /\ PathAbsent(call)) =>
     /\ call.outcome = Raise("FileNotFoundError")
     /\ _encoder_session = None
     /\ _decoder_session = None
     /\ ~get_info(Self).loaded
     /\ NotLoadedForEveryInput(Self)

\* C8 (amended): a load raises ImportError when onnxruntime cannot be
\* imported, and otherwise NotFound whenever the encoder or the decoder path is
\* absent; either way it constructs nothing: the sessions, the tokenizer and
\* expected_frames are what they were, so that sessions that were unset are
\* still unset, get_info still reports loaded = false and transcribe still
\* fails with NotLoaded.
C8_NotFoundLeavesInstance ==
  [][ call'.op = "load" =>
        /\ ~call'.ort => call'.outcome = Raise("ImportError")
        /\ (call'.ort /\ PathAbsent(call')) =>
              call'.outcome = Raise("FileNotFoundError")
        /\ call'.outcome \in {Raise("ImportError"), Raise("FileNotFoundError")} =>
             /\ UNCHANGED self_vars
             /\ (_encoder_session = None /\ _decoder_session = None) =>
                  /\ _encoder_session' = None
                  /\ _decoder_session' = None
             /\ ~get_info(Self).loaded =>
                  /\ ~get_info(Self)'.loaded
                  /\ NotLoadedForEveryInput(Self)'
    ]_vars

\* C8 witness: a load with the encoder present and the decoder path absent
\* raised NotFound on an instance whose sessions are unset.
C8_Witness ==
  /\ call.op = "load"
  /\ call.ort
  /\ call.encoder_exists
  /\ ~call.decoder_exists
  /\ call.outcome = Raise("FileNotFoundError")
  /\ _encoder_session = None
  /\ _decoder_session = None
  /\ ~get_info(Self).loaded

\* C9: build_decoder_input returns start-of-transcript, the language token,
\* the task token (translate for the task 'translate', transcribe for every
\* other task) and then the no-timestamps token exactly when no_timestamps
\* is set: three or four ids, in this order.
C9_SeedLayout ==
  call.op = "build_decoder_input" =>
     LET seed == call.outcome.value
     IN  /\ Len(seed) = IF call.no_timestamps THEN 4 ELSE 3
         /\ seed[1] = SOT_TOKEN
         /\ seed[2] = get_language_token(call.language)
         /\ seed[2] \in {LANGUAGES[c] : c \in LanguageCodes}
         /\ seed[3] = IF call.task = "translate"
                        THEN TRANSLATE_TOKEN ELSE TRANSCRIBE_TOKEN
         /\ call.no_timestamps => seed[4] = NO_TIMESTAMPS_TOKEN

\* C9 witness: the seed of an unknown language and a task that is neither
\* 'transcribe' nor 'translate', without the no-timestamps token.
C9_Witness ==
  /\ call.op = "build_decoder_input"
  /\ call.language = "xx"
  /\ call.task = "summarize"
  /\ ~call.no_timestamps
  /\ call.outcome.value = <<SOT_TOKEN, LANGUAGES["en"], TRANSCRIBE_TOKEN>>

\* C10: decode of a decoder seed with skip_special_tokens set is the empty
\* string, every id of the seed being at least start-of-transcript.
C10_SeedDecodesToEmpty ==
  (call.op = "decode" /\ call.skip_special_tokens) =>
     /\ call.outcome.value = ""
     /\ \A i \in 1..Len(call.token_ids) : call.token_ids[i] >= SOT_TOKEN

\* C10 witness: the seed of an unknown language was decoded to the empty
\* string by a tokenizer whose vocabulary names every id of the seed.
C10_Witness ==
  /\ call.op = "decode"
  /\ call.skip_special_tokens
  /\ call.seed_of.language = "xx"
  /\ call.seed_of.task = "translate"
  /\ call.outcome.value = ""
  /\ \A i \in 1..Len(call.token_ids) :
       call.token_ids[i] \in DOMAIN _tokenizer.inv_vocab
  /\ decode(_tokenizer, call.token_ids, FALSE) # ""

\* C11: get_language_token never raises; for every string it returns an id
\* of the language table: the table's id of a code that is in the table, and
\* the id of English, 50259, for every string that is not.
C11_LanguageTokenTotal ==
  (call.op = "get_language_token" /\ Finished(call)) =>
     /\ call.outcome.kind = "return"
     /\ \E i \in 1..Len(LanguageItems) :
          LanguageItems[i][2] = call.outcome.value
     /\ \A i \in 1..Len(LanguageItems) :
          LanguageItems[i][1] = call.language
            => call.outcome.value = LanguageItems[i][2]
     /\ (\A i \in 1..Len(LanguageItems) : LanguageItems[i][1] # call.language)
          => call.outcome.value = 50259

\* C11 witness: a string that is no code of the table got the id of English.
C11_Witness ==
  /\ call.op = "get_language_token"
  /\ call.language = "english"
  /\ call.outcome = Return(50259)

\* C12: with skip_special_tokens set, decode of xs + [EOT] + ys, xs without
\* end-of-text, is decode of xs.
C12_DecodeIgnoresAfterEot ==
  (call.op = "decode" /\ Finished(call) /\ call.skip_special_tokens) =>
     \A k \in 1..Len(call.token_ids) :
       ( /\ call.token_ids[k] = EOT_TOKEN
         /\ \A j \in 1..(k - 1) : call.token_ids[j] # EOT_TOKEN ) =>
         call.outcome.value =
           decode(WhisperTokenizer(call.model_dir),
                  SubSeq(call.token_ids, 1, k - 1), TRUE)

\* C12 witness: an id of the vocabulary after end-of-text left no trace.
C12_Witness ==
  /\ call.op = "decode"
  /\ call.skip_special_tokens
  /\ call.model_dir = DirFull
  /\ call.token_ids = <<10, EOT_TOKEN, 11>>
  /\ call.outcome = Return("hi")

\* The ids decode resolves: all of them, or with skip_special_tokens set the
\* ids below start-of-transcript among those before the first end-of-text.
ResolvedIds(token_ids, skip_special_tokens) ==
  IF ~skip_special_tokens THEN token_ids
  ELSE LET eots == {k \in 1..Len(token_ids) : token_ids[k] = EOT_TOKEN}
           stop == IF eots = {} THEN Len(token_ids) + 1
                   ELSE CHOOSE k \in eots : \A j \in eots : k <= j
       IN  SelectSeq(SubSeq(token_ids, 1, stop - 1), LAMBDA t : t < SOT_TOKEN)

\* The strings of ids[lo..hi] in the inverse vocabulary, one after the
\* other; an id that is not in it gives nothing.
RECURSIVE ResolvedText(_, _, _, _)
ResolvedText(inv_vocab, ids, lo, hi) ==
  IF lo > hi THEN <<>>
  ELSE IF lo = hi
    THEN IF ids[lo] \in DOMAIN inv_vocab THEN inv_vocab[ids[lo]] ELSE <<>>
  ELSE LET mid == (lo + hi) \div 2
       IN  ResolvedText(inv_vocab, ids, lo, mid)
             \o ResolvedText(inv_vocab, ids, mid + 1, hi)

\* C13: decode gives the text of the strings the inverse vocabulary has for
\* the ids, ids absent from it giving nothing; with skip_special_tokens set
\* no id from start-of-transcript up is among them, and without it every id
\* is, the ids after an end-of-text included.
C13_DecodeResolvesThroughInverseVocab ==
  (call.op = "decode" /\ Finished(call)) =>
     LET ids == ResolvedIds(call.token_ids, call.skip_special_tokens)
         inv_vocab == WhisperTokenizer(call.model_dir).inv_vocab
     IN  call.outcome =
           Return(Join(Strip(ReplaceMarkers(
                    ResolvedText(inv_vocab, ids, 1, Len(ids))))))

\* C13 witness: without skip_special_tokens, end-of-text was resolved like
\* any id and so was the id after it; the id absent from the vocabulary
\* gave nothing.
C13_Witness ==
  /\ call.op = "decode"
  /\ ~call.skip_special_tokens
  /\ call.model_dir = DirFull
  /\ call.token_ids = <<EOT_TOKEN, 999, 10>>
  /\ call.outcome = Return("<|endoftext|>hi")

\* C14 (as claimed): encode gives one id per character, the vocabulary's id
\* of a character that is in it and EOT_TOKEN for every other, whatever the
\* vocabulary holds.
C14_EncodeFallsBackToEot ==
  (call.op = "encode" /\ Finished(call)) =>
     LET vocab == WhisperTokenizer(call.model_dir).vocab
         ids == call.outcome.value
     IN  /\ call.outcome.kind = "return"
         /\ Len(ids) = Len(call.text)
         /\ \A i \in 1..Len(call.text) :
              ids[i] = IF <<call.text[i]>> \in DOMAIN vocab
                         THEN vocab[<<call.text[i]>>] ELSE EOT_TOKEN

\* C18: the constructor returns whichever of vocab.json and merges.txt is
\* missing; a missing file leaves its table empty and the file that is there
\* is loaded.  On an empty vocabulary decode returns the empty string and
\* encode one id per character.
C18_MissingFilesLeaveEmptyTables ==
  /\ (call.op = "WhisperTokenizer" /\ Finished(call)
        /\ call.model_dir.vocab_file # "corrupt") =>
       /\ call.outcome.kind = "return"
       /\ LET t == call.outcome.value
          IN  /\ IF call.model_dir.vocab_file = "absent"
                   THEN DOMAIN t.vocab = {} /\ DOMAIN t.inv_vocab = {}
                   ELSE /\ Cardinality(DOMAIN t.vocab) = Len(VocabItems)
                        /\ t.vocab[<<"h", "i">>] = 10
                        /\ t.inv_vocab[10] = <<"h", "i">>
              /\ IF call.model_dir.merges_file = "absent"
                   THEN t.merges = <<>>
                   ELSE t.merges = << <<"h", "i">>, <<"y", "o">> >>
  /\ (call.op = "decode" /\ Finished(call)
        /\ call.model_dir.vocab_file = "absent") =>
       call.outcome = Return("")
  /\ (call.op = "encode" /\ Finished(call)
        /\ call.model_dir.vocab_file = "absent") =>
       /\ call.outcome.kind = "return"
       /\ Len(call.outcome.value) = Len(call.text)

\* C18 witness: a tokenizer was constructed over a directory that has a
\* merges.txt and no vocab.json; the merges were loaded.
C18_Witness ==
  /\ call.op = "WhisperTokenizer"
  /\ call.model_dir = DirNoVocab
  /\ call.outcome.kind = "return"
  /\ DOMAIN call.outcome.value.vocab = {}
  /\ Len(call.outcome.value.merges) = 2

\* C15: whatever the length of the waveform, when the expected frame count
\* is positive the tensor the encoder was run on has 80 rows and that many
\* columns; the waveform was first brought to 480000 samples, of which the
\* mel spectrogram has 2998 frames.
C15_FeatureTensorShape ==
  (encoder_hidden # None /\ _expected_frames # None /\ _expected_frames.v > 0) =>
     /\ encoder_hidden.of_shape = <<1, 80, _expected_frames.v>>
     /\ PadTrimLength(audio.n) = 480000
     /\ _compute_mel_spectrogram(audio).rows = 80
     /\ _compute_mel_spectrogram(audio).frames = 2998

\* C15 witness: a waveform longer than 30 seconds went to an encoder that
\* expects 1500 frames.
C15_Witness ==
  /\ encoder_hidden # None
  /\ audio.n > 480000
  /\ _expected_frames = PyInt(1500)
  /\ encoder_hidden.of_shape = <<1, 80, 1500>>

\* The tokens generated by a decode whose decoder answers are log: the
\* choices before the end-of-text or the failure that ended it.
GeneratedOf(log) ==
  IF EndsWithEot(log) \/ EndsWithFailure(log)
    THEN Chosen(log, Len(log) - 1)
    ELSE Chosen(log, Len(log))

\* C16: a transcribe call that returns gives, when no token was generated,
\* the fallback text naming the requested language with confidence 0.60,
\* and otherwise the decode of the generated tokens (special tokens
\* skipped) with confidence 0.85; confidence has no other value.
C16_OutputFollowsGenerated ==
  (call.op = "transcribe" /\ Finished(call) /\ call.outcome.kind = "return") =>
     LET generated == GeneratedOf(call.decoder_log)
         r == call.outcome.value
     IN  /\ r.confidence \in {60, 85}
         /\ IF generated = <<>>
              THEN /\ r.confidence = 60
                   /\ r.text = "[Audio in "
                                 \o (IF call.language \in DOMAIN languages
                                       THEN languages[call.language]
                                       ELSE call.language)
                                 \o "]"
              ELSE /\ r.confidence = 85
                   /\ r.text = decode(_tokenizer, generated, TRUE)

\* C16 witness: tokens were generated that decode to nothing; the text is
\* empty and the confidence the high one.
C16_Witness ==
  /\ call.op = "transcribe"
  /\ call.outcome.kind = "return"
  /\ Len(GeneratedOf(call.decoder_log)) = 2
  /\ call.outcome.value.text = ""
  /\ call.outcome.value.confidence = 85

\* C17: a result of transcribe has one segment, from 0.0 to the number of
\* samples of the input over 16000 (5.0 for 5 seconds of audio), with the
\* text and the confidence of the result; its language is the requested one
\* and duration_ms is not negative.
C17_OneSegmentSpansInput ==
  (call.op = "transcribe" /\ Finished(call) /\ call.outcome.kind = "return") =>
     LET r == call.outcome.value
     IN  /\ Len(r.segments) = 1
         /\ r.segments[1].start.num = 0
         /\ r.segments[1].end = [num |-> call.audio.n, den |-> 16000]
         /\ (call.audio.n = 80000 =>
               r.segments[1].end.num = 5 * r.segments[1].end.den)
         /\ r.segments[1].text = r.text
         /\ r.segments[1].confidence = r.confidence
         /\ r.language = call.language
         /\ r.duration_ms >= 0

\* C17 witness: transcribe returned on the 5-second waveform.
C17_Witness ==
  /\ call.op = "transcribe"
  /\ call.outcome.kind = "return"
  /\ call.audio = W5
  /\ call.outcome.value.segments[1].end = [num |-> 80000, den |-> 16000]
  /\ call.outcome.value.language = "xx"

\* C19: after a load that returned, expected_frames is the third dimension
\* of the encoder's declared input shape when that is an integer and 3000
\* otherwise (no third dimension, a symbolic or undeclared one, a shape that
\* cannot be read); load returns whenever the runtime and both files are
\* there, whatever the probe meets.
C19_ExpectedFramesFromShape ==
  (call.op = "load" /\ Finished(call)) =>
     /\ (call.ort /\ call.encoder_exists /\ call.decoder_exists)
          => call.outcome = Return(TRUE)
     /\ call.outcome.kind = "return" =>
          LET shape == _encoder_session.in_shape
              declared == /\ ~_encoder_session.shape_raises
                          /\ Len(shape) >= 3
                          /\ shape[3].kind = "int"
          IN  _expected_frames = IF declared THEN PyInt(shape[3].v)
                                 ELSE PyInt(3000)

\* C19 witness: load returned over an encoder whose input shape cannot be
\* read, with 3000 expected frames.
C19_Witness ==
  /\ call.op = "load"
  /\ call.outcome = Return(TRUE)
  /\ _encoder_session.shape_raises
  /\ _expected_frames = PyInt(3000)

\* C20 (as claimed): calculate_risk returns a score between 0 and 1 for
\* every list of events, with count the number of events.
C20_ScoreInUnitRange ==
  (call.op = "calculate_risk" /\ Finished(call)) =>
     /\ call.outcome.kind = "return"
     /\ 0 <= call.outcome.value.score.num
     /\ call.outcome.value.score.num <= call.outcome.value.score.den
     /\ call.outcome.value.count = Len(call.events)

\* C21 (as claimed): a query with a limit returns at most limit rows, the
\* last of the matching rows in insertion order; a query without where and
\* limit returns every inserted row in insertion order.
C21_QueryHonoursLimit ==
  (call.op = "query" /\ Finished(call)) =>
     LET matching == IF call.where = None THEN _rows
                     ELSE SelectSeq(_rows, LAMBDA r :
                            \A k \in DOMAIN call.where :
                              k \in DOMAIN r /\ r[k] = call.where[k])
         n == Len(matching)
         got == call.outcome.value
     IN  /\ call.limit # None =>
              /\ Len(got) <= call.limit.v
              /\ Len(got) <= n
              /\ got = SubSeq(matching, n - Len(got) + 1, n)
              /\ Len(got) < call.limit.v => got = matching
         /\ (call.where = None /\ call.limit = None) => got = _rows

\* C22: while the loop runs, the sequence the decoder is fed is the seed
\* followed by the generated sequence, which holds the tokens chosen so far
\* in order; a decoder call whose choice is not end-of-text appends that
\* choice to both sequences, and any other call leaves both as they are.
C22_FedSeedThenGenerated ==
  /\ [](InDecode =>
         /\ tokens = Seed \o generated_tokens
         /\ generated_tokens = GeneratedOf(decoder_log))
  /\ [][Len(decoder_log') = Len(decoder_log) + 1 =>
         LET out == decoder_log'[Len(decoder_log')]
         IN  IF out.kind = "logits" /\ out.argmax # EOT_TOKEN
               THEN /\ tokens' = Append(tokens, out.argmax)
                    /\ generated_tokens' = Append(generated_tokens, out.argmax)
               ELSE /\ tokens' = tokens
                    /\ generated_tokens' = generated_tokens]_vars

\* C22 witness: the fourth decoder call is about to be fed the seed and the
\* three tokens chosen before, in the order they were chosen.
C22_Witness ==
  /\ pc = "decode_loop"
  /\ Len(decoder_log) = 3
  /\ generated_tokens = <<10, 11, 10>>
  /\ tokens = Seed \o <<10, 11, 10>>

\* No load call has returned: _expected_frames is assigned by load alone, by
\* its last statements before `return True`.
NoLoadReturned == _expected_frames = None

\* C23 (as claimed): as long as every load call has raised, at whichever
\* step, transcribe fails with NotLoaded for every input.
C23_NotLoadedUntilLoadReturns ==
  (call.op = "transcribe" /\ Finished(call) /\ NoLoadReturned) =>
     call.outcome = Raise("NotLoaded")

\* C24: no step of a transcribe call, returning or raising, alone or within
\* transcribe_batch, changes the sessions, the tokenizer (its tables) or
\* expected_frames; and each call that enters the decoding loop starts from
\* its own seed and an empty generated sequence, whatever the calls before
\* it left.
C24_TranscribeLeavesInstance ==
  [][call'.op \in {"transcribe", "transcribe_batch"} =>
       /\ UNCHANGED <<_encoder_session, _decoder_session, _tokenizer,
                      _expected_frames>>
       /\ (pc # "decode_loop" /\ pc' = "decode_loop") =>
            /\ tokens' = build_decoder_input(language', "transcribe", TRUE)
            /\ generated_tokens' = <<>>]_vars

\* C24 witness: on an instance that was loaded, a transcribe call has
\* returned after generating tokens, and the instance is as load left it.
C24_Witness ==
  /\ call.op = "transcribe"
  /\ call.outcome.kind = "return"
  /\ Len(call.decoder_log) = 50
  /\ _encoder_session = E1500
  /\ _decoder_session = DScriptB
  /\ _tokenizer = WhisperTokenizer(DirFull)
  /\ _expected_frames = PyInt(1500)

\* C25 (as claimed): the text of a transcribe call that returns is never the
\* empty string, whatever the decoder answered.
C25_TextNeverEmpty ==
  (call.op = "transcribe" /\ Finished(call) /\ call.outcome.kind = "return") =>
     call.outcome.value.text # ""

\* C26: whenever the mel spectrogram of a waveform was computed, whatever the
\* length of the waveform, the short-time transform runs over 480000 samples,
\* counts 1 + floor((480000 - 400) / 160) = 2998 frames, every frame index
\* i in 0..2997 has i*160 + 400 <= 480000 and a frame of 400 samples, and no
\* column is left all-zero by the skip branch.
C26_NoShortFrame ==
  encoder_hidden # None =>
     LET len == PadTrimLength(audio.n)
     IN  /\ len = 480000
         /\ FrameCount(len) = 1 + (480000 - 400) \div 160
         /\ FrameCount(len) = 2998
         /\ \A i \in 0 .. 2997 :
              /\ i * 160 + 400 <= 480000
              /\ FrameLength(len, i) = 400
         /\ StftZeroFrames(len) = {}

\* C26 witness: the transform ran on a waveform shorter than one window,
\* padded to 30 seconds, and its last frame ends inside the padded samples.
C26_Witness ==
  /\ encoder_hidden # None
  /\ audio = WShort
  /\ FrameLength(PadTrimLength(audio.n), FrameCount(PadTrimLength(audio.n)) - 1) = n_fft
  /\ StftZeroFrames(PadTrimLength(audio.n)) = {}

\* C27: after any sequence of append_entry calls from the empty list,
\* verify_chain returns true: the first entry's prev_hash is "genesis", every
\* later entry's prev_hash is the hash of the entry before it, and every
\* entry's hash is the hash of its own fields; and a step never modifies or
\* removes an entry that was in the list.
C27_ChainVerifies ==
  /\ [](/\ verify_chain(entries)
        /\ entries # <<>> => entries[1].prev_hash = "genesis"
        /\ \A i \in 2 .. Len(entries) :
             entries[i].prev_hash = entries[i - 1].hash
        /\ \A i \in 1 .. Len(entries) :
             entries[i].hash = _hash(entries[i].ts, entries[i].actor,
                                     entries[i].action, entries[i].prev_hash)
        /\ (call.op = "verify_chain" => call.outcome = Return(TRUE)))
  /\ [][/\ Len(entries') >= Len(entries)
         /\ SubSeq(entries', 1, Len(entries)) = entries
         /\ call'.op = "append_entry" => Len(entries') = Len(entries) + 1]_vars

\* C27 witness: three entries were appended, the third chained to the
\* second, and verify_chain was called on them and returned true.
C27_Witness ==
  /\ Len(entries) = 3
  /\ entries[1].prev_hash = "genesis"
  /\ entries[3].prev_hash = entries[2].hash
  /\ entries[3].prev_hash # "genesis"
  /\ call.op = "verify_chain"
  /\ call.outcome = Return(TRUE)

====
